---------------------------- MODULE Spec2Model ----------------------------
(***************************************************************************)
(* Heading-driven segmentation of UBC calendar pages, as implemented by    *)
(* the scrapers under src/data/Scraper.                                    *)
(*                                                                         *)
(* A parsed page is modelled as the ordered list of sibling nodes the      *)
(* walks run over.  A node is a tag (with its name and the raw text        *)
(* fragments of its descendants, in document order) or a NavigableString.  *)
(* Text is kept as strings, so that get_text, strip, startswith, the       *)
(* regular expressions and normalize_text are computed, not assumed.       *)
(***************************************************************************)
EXTENDS Naturals, Sequences, FiniteSets, TLC

VARIABLES
    pc,               \* position of the running program
    page,             \* the parsed document: its sibling nodes
    spec_headers,     \* extract_specializations_with_headings: positions of the section headings
    idx,              \* index of the current section heading (1-based)
    node,             \* the walk's current node (a position; Len+1 is None)
    spec_name,        \* name of the section being built
    current_year,     \* label of the open sub-group, or None
    current_entries,  \* lines of the open sub-group
    years,            \* sub-groups already closed for this section
    results,          \* the records produced so far
    visited,          \* fallback walk: the nodes already seen
    err,              \* scrape_program: the error message, or None
    year_pos,         \* history: the node that opened the current sub-group (0: none)
    collected,        \* history: where every collected line came from
    steps,            \* history: loop iterations of the current walk
    target,           \* process_specialization: the specialization name looked for
    heading,          \* the heading find_specialization_heading returned (0: None)
    lines,            \* extract_requirement_lines_from_block: the lines collected
    requirements_raw, \* the record's requirements_raw, None until it is set
    s_in,             \* normalize_text: the string handed to it
    normalized,       \* the results of applying normalize_text once, twice, ...
    h3s,              \* parse_subject_page: positions of the h3 with a digit
    cidx,             \* index of the current course heading (1-based)
    course_meta,      \* extract_course_block: the parsed heading
    description_parts,\* the texts collected for the description
    prereq_raw,       \* text after "Prerequisite:", or None
    coreq_raw,        \* text after "Corequisite:", or None
    exclusion_raw,    \* the credit-exclusion sentence, or None
    courses,          \* the course records emitted so far
    soup_title,       \* soup.title.string as the fallback read it, or None
    has_body,         \* whether the fallback found a body element
    urls,             \* the pages of a batch, in the order the loop takes them
    bi,               \* the position of the batch loop
    all_entries,      \* the records the batch has accumulated
    written,          \* whether the batch has written its output file
    raised,           \* the exception that left main, or None
    loaded,           \* the records of the output file found at start
    existing_specs,   \* the loaded records as main keeps them
    existing_pairs,   \* the (program_url, specialization_name) keys seen
    all_specs,        \* the merged collection
    completed_programs, \* the completed-page counter
    futures,          \* the state of each page's future
    handled,          \* the futures as_completed has yielded
    cur,              \* the page whose records are being merged, or 0
    si,               \* the position in that page's records
    appends           \* history: who appended what to all_specs, and when

\* the state of each program
rawVars == <<spec_headers, idx, spec_name, current_year, current_entries, years,
             results, visited, err, year_pos, collected, soup_title, has_body>>
blockVars == <<target, heading, lines, requirements_raw>>
normVars == <<s_in, normalized>>
courseVars == <<h3s, cidx, course_meta, description_parts, prereq_raw, coreq_raw,
                exclusion_raw, courses>>

batchVars == <<urls, bi, all_entries, written, raised>>

mergeVars == <<loaded, existing_specs, existing_pairs, all_specs, completed_programs,
               futures, handled, cur, si, appends>>

vars == <<pc, page, node, steps, rawVars, blockVars, normVars, courseVars, batchVars,
          mergeVars>>

None == "<None>"

\* the programs that are not running keep their initial state
RawIdle ==
    /\ spec_headers = <<>>
    /\ idx = 1
    /\ spec_name = None
    /\ current_year = None
    /\ current_entries = <<>>
    /\ years = <<>>
    /\ results = <<>>
    /\ visited = {}
    /\ err = None
    /\ year_pos = 0
    /\ collected = {}
    /\ soup_title = None
    /\ has_body = TRUE

BlockIdle ==
    /\ target = None
    /\ heading = 0
    /\ lines = <<>>
    /\ requirements_raw = None

NormIdle ==
    /\ s_in = None
    /\ normalized = <<>>

CourseIdle ==
    /\ h3s = <<>>
    /\ cidx = 1
    /\ course_meta = None
    /\ description_parts = <<>>
    /\ prereq_raw = None
    /\ coreq_raw = None
    /\ exclusion_raw = None
    /\ courses = <<>>

BatchIdle ==
    /\ urls = <<>>
    /\ bi = 1
    /\ all_entries = <<>>
    /\ written = FALSE
    /\ raised = None

MergeIdle ==
    /\ loaded = <<>>
    /\ existing_specs = <<>>
    /\ existing_pairs = {}
    /\ all_specs = <<>>
    /\ completed_programs = 0
    /\ futures = <<>>
    /\ handled = {}
    /\ cur = 0
    /\ si = 1
    /\ appends = <<>>

(***************************************************************************)
(* Bounds of the model.                                                    *)
(***************************************************************************)
\* nodes of a page handed to extract_specializations_raw
MaxNodes == 4
\* nodes of a page handed to process_specialization
MaxBlockNodes == 4
\* characters of a string handed to normalize_text
MaxStrLen == 5
\* successive applications of normalize_text
MaxApplications == 2
\* nodes of a subject page handed to parse_subject_page
MaxCourseNodes == 4

(***************************************************************************)
(* Strings.                                                                *)
(***************************************************************************)
\* the characters Python's str.strip() and the regular expression \s treat as white space
WS == {" ", "\t", "\n"}

IsWS(c) == c \in WS

RECURSIVE LStrip(_)
LStrip(s) ==
    IF Len(s) > 0 /\ IsWS(SubSeq(s, 1, 1)) THEN LStrip(SubSeq(s, 2, Len(s))) ELSE s

RECURSIVE RStrip(_)
RStrip(s) ==
    IF Len(s) > 0 /\ IsWS(SubSeq(s, Len(s), Len(s)))
    THEN RStrip(SubSeq(s, 1, Len(s) - 1)) ELSE s

\* str.strip()
Strip(s) == RStrip(LStrip(s))

\* str.startswith(p)
StartsWith(s, p) == Len(s) >= Len(p) /\ SubSeq(s, 1, Len(p)) = p

\* a in b
IsSubstr(a, b) ==
    Len(a) = 0 \/ \E i \in 1..Len(b) : i + Len(a) - 1 <= Len(b) /\ SubSeq(b, i, i + Len(a) - 1) = a

RECURSIVE JoinWith(_, _)
\* sep.join(parts)
JoinWith(sep, parts) ==
    IF parts = <<>> THEN ""
    ELSE IF Len(parts) = 1 THEN parts[1]
    ELSE parts[1] \o sep \o JoinWith(sep, Tail(parts))

RECURSIVE StrippedFragments(_)
StrippedFragments(strs) ==
    IF strs = <<>> THEN <<>>
    ELSE LET f == Strip(Head(strs)) IN
         IF f = "" THEN StrippedFragments(Tail(strs))
         ELSE <<f>> \o StrippedFragments(Tail(strs))

\* Tag.get_text(" ", strip=True): the stripped, non-empty text fragments joined by one space
get_text(n) == JoinWith(" ", StrippedFragments(n.strs))


(***************************************************************************)
(* Nodes.                                                                  *)
(***************************************************************************)
\* a bs4 Tag: its name and the raw strings of its descendants
TagNode(name, strs) == [tag |-> TRUE, name |-> name, strs |-> strs]

\* a bs4 NavigableString between tags (the parser creates no empty one)
StrNode(text) == [tag |-> FALSE, name |-> "", strs |-> <<text>>]

\* the nodes the pages of the requirements scraper are built from
RawNodes ==
    { TagNode("h3", <<"Major in X">>),
      TagNode("h4", <<" Major in Y\n">>),
      TagNode("h3", <<"First Year">>),
      TagNode("p", <<"Second ", "Year">>),
      TagNode("h3", <<"Notes">>),
      TagNode("p", <<"line1">>),
      TagNode("li", <<"OK">>),
      TagNode("div", <<" ">>),
      TagNode("h1", <<"Bachelor of Arts">>),
      StrNode("\n") }

RECURSIVE SeqsUpTo(_, _)
\* all sequences over S of length at most n
SeqsUpTo(S, n) ==
    IF n = 0 THEN {<<>>}
    ELSE LET P == SeqsUpTo(S, n - 1) IN
         P \cup {Append(q, x) : q \in {r \in P : Len(r) = n - 1}, x \in S}

(***************************************************************************)
(* scrape_requirements_raw.py: the section classifier.                     *)
(***************************************************************************)
SpecPrefixes ==
    {"Major", "Honours", "Combined Major", "Combined Honours", "Minor",
     "Specialization", "Specializations", "Major Programs", "Honours Programs"}

is_specialization_heading(text) ==
    LET t == Strip(text) IN \E p \in SpecPrefixes : StartsWith(t, p)

\* every pattern is anchored at both ends and has no metacharacter: a match is equality
YearPatterns ==
    {"First Year", "Second Year", "Third Year", "Fourth Year",
     "Third and Fourth Years", "Years 2 and 3", "Fourth and Fifth Years",
     "First-Year Curriculum", "First Year Curriculum", "Second Year Program",
     "Third Year Program", "Fourth Year Program"}

is_year_heading(text) == Strip(text) \in YearPatterns

(***************************************************************************)
(* scrape_requirements_raw.py: extract_specializations_with_headings.      *)
(***************************************************************************)
Nodes == page.nodes
NumNodes == Len(page.nodes)

\* mutant: the walk does not move on
NextSibling_Stays(i) == i

\* node.next_sibling; position NumNodes + 1 stands for None
NextSibling(i) == i + 1

\* soup.find_all(["h3", "h4"]) filtered by is_specialization_heading, in document order
RECURSIVE SpecHeadersFrom(_, _)
SpecHeadersFrom(nodes, i) ==
    IF i > Len(nodes) THEN <<>>
    ELSE IF nodes[i].tag /\ nodes[i].name \in {"h3", "h4"}
            /\ is_specialization_heading(get_text(nodes[i]))
         THEN <<i>> \o SpecHeadersFrom(nodes, i + 1)
         ELSE SpecHeadersFrom(nodes, i + 1)

\* mutant: the scan starts one node too late
FindSpecHeaders_SkipsFirst(nodes) == SpecHeadersFrom(nodes, 2)

FindSpecHeaders(nodes) == SpecHeadersFrom(nodes, 1)

\* mutant: every h2/h3/h4 ends the walk, as is_block_terminator does in the other scraper
StopsWalk_AnyHeading(n) == n.tag /\ n.name \in {"h2", "h3", "h4"}

\* mutant: only an h3 ends the walk
StopsWalk_H3Only(n) ==
    n.tag /\ n.name = "h3" /\ is_specialization_heading(get_text(n))

\* the loop's break: the node is an h3/h4 whose text is a specialization heading
StopsWalk(n) ==
    n.tag /\ n.name \in {"h3", "h4"} /\ is_specialization_heading(get_text(n))

\* mutant: the test for an empty line is missing
CollectedLine_NoEmptyCheck(n, year) ==
    IF year # None /\ n.name \in {"p", "div", "li"}
    THEN <<Strip(get_text(n))>>
    ELSE <<>>

\* mutant: lines are collected before the first year heading too
CollectedLine_BeforeYear(n, year) ==
    IF n.name \in {"p", "div", "li"}
    THEN LET line == Strip(get_text(n)) IN IF line # "" THEN <<line>> ELSE <<>>
    ELSE <<>>

\* the line a node contributes (<<>> when it contributes none)
CollectedLine(n, year) ==
    IF year # None /\ n.name \in {"p", "div", "li"}
    THEN LET line == Strip(get_text(n)) IN IF line # "" THEN <<line>> ELSE <<>>
    ELSE <<>>

\* mutant: an open sub-group is appended even without lines
Flush_KeepsEmpty(ys, year, entries) ==
    IF year # None
    THEN Append(ys, [year_label |-> year, raw_lines |-> entries])
    ELSE ys

\* years.append({...}) when a sub-group is open and has lines
Flush(ys, year, entries) ==
    IF year # None /\ entries # <<>>
    THEN Append(ys, [year_label |-> year, raw_lines |-> entries])
    ELSE ys


\* one collected line: the walk's start node, the node that opened the sub-group,
\* the node the line was taken from
Origin(start, yp, pos) == [start |-> start, year |-> yp, pos |-> pos]

InitRaw ==
    /\ page \in {[nodes |-> q] : q \in SeqsUpTo(RawNodes, MaxNodes)}
    /\ pc = "start"
    /\ node = 0
    /\ steps = 0
    /\ RawIdle
    /\ BlockIdle
    /\ NormIdle
    /\ CourseIdle
    /\ BatchIdle
    /\ MergeIdle

\* lines 206-212: collect the specialization headings
CollectHeaders ==
    /\ UNCHANGED <<blockVars, normVars, batchVars, mergeVars, courseVars>>
    /\ pc = "start"
    /\ spec_headers' = FindSpecHeaders(Nodes)
    /\ idx' = 1
    /\ results' = <<>>
    /\ pc' = "for"
    /\ UNCHANGED <<page, node, spec_name, current_year, current_entries, years,
                   visited, err, soup_title, has_body, year_pos, collected, steps>>

\* lines 214-222: the next heading starts a section
BeginSection ==
    /\ UNCHANGED <<blockVars, normVars, batchVars, mergeVars, courseVars>>
    /\ pc = "for"
    /\ idx <= Len(spec_headers)
    /\ spec_name' = get_text(Nodes[spec_headers[idx]])
    /\ years' = <<>>
    /\ current_year' = None
    /\ current_entries' = <<>>
    /\ node' = NextSibling(spec_headers[idx])
    /\ year_pos' = 0
    /\ steps' = 0
    /\ pc' = "walk"
    /\ UNCHANGED <<page, spec_headers, idx, results, visited, err, soup_title, has_body, collected>>

\* lines 224-262: one iteration of the while loop that does not leave it
SectionStep ==
    /\ UNCHANGED <<blockVars, normVars, batchVars, mergeVars, courseVars>>
    /\ pc = "walk"
    /\ node <= NumNodes
    /\ ~StopsWalk(Nodes[node])
    /\ LET n == Nodes[node]
           text == get_text(n)
       IN  IF ~n.tag
           THEN UNCHANGED <<current_year, current_entries, years, year_pos, collected>>
           ELSE IF is_year_heading(text)
           THEN /\ years' = Flush(years, current_year, current_entries)
                /\ current_entries' =
                       IF current_year # None /\ current_entries # <<>>
                       THEN <<>> ELSE current_entries
                /\ current_year' = text
                /\ year_pos' = node
                /\ UNCHANGED collected
           ELSE LET got == CollectedLine(n, current_year) IN
                /\ current_entries' = current_entries \o got
                /\ collected' =
                       IF got # <<>>
                       THEN collected \cup
                            {Origin(spec_headers[idx], year_pos, node)}
                       ELSE collected
                /\ UNCHANGED <<current_year, years, year_pos>>
    /\ node' = NextSibling(node)
    /\ steps' = steps + 1
    /\ UNCHANGED <<pc, page, spec_headers, idx, spec_name, results, visited, err, soup_title, has_body>>

\* lines 224-229 and 264-279: the loop ends (no node left, or the next
\* specialization heading); the open sub-group is flushed and the record appended
EndSection ==
    /\ UNCHANGED <<blockVars, normVars, batchVars, mergeVars, courseVars>>
    /\ pc = "walk"
    /\ IF node > NumNodes THEN TRUE ELSE StopsWalk(Nodes[node])
    /\ years' = Flush(years, current_year, current_entries)
    /\ results' = Append(results,
                         [specialization_name |-> spec_name,
                          years_raw |-> Flush(years, current_year, current_entries)])
    /\ idx' = idx + 1
    /\ pc' = "for"
    /\ UNCHANGED <<page, spec_headers, node, spec_name, current_year,
                   current_entries, visited, err, soup_title, has_body, year_pos, collected, steps>>

\* lines 281 and 384-386: the heading-based extraction found sections
ReturnSpecs ==
    /\ UNCHANGED <<blockVars, normVars, batchVars, mergeVars, courseVars>>
    /\ pc = "for"
    /\ idx > Len(spec_headers)
    /\ results # <<>>
    /\ pc' = "done"
    /\ UNCHANGED <<page, spec_headers, idx, node, spec_name, current_year,
                   current_entries, years, results, visited, err, soup_title, has_body, year_pos, collected, steps>>


(***************************************************************************)
(* scrape_requirements_raw.py: extract_single_specialization_fallback.     *)
(***************************************************************************)
RECURSIVE FirstTagFrom(_, _, _)
\* soup.find(name): the position of the first tag of that name, 0 when there is none
FirstTagFrom(nodes, name, i) ==
    IF i > Len(nodes) THEN 0
    ELSE IF nodes[i].tag /\ nodes[i].name = name THEN i
    ELSE FirstTagFrom(nodes, name, i + 1)

FindH1(nodes) == FirstTagFrom(nodes, "h1", 1)

\* soup.title.string as the parser can give it: None (no title, or no single string) or a string
TitleStrings == {None, " UBC Calendar\n"}

\* lines 296-302: the name of the single section
FallbackName(nodes, title) ==
    IF FindH1(nodes) # 0 THEN get_text(nodes[FindH1(nodes)])
    ELSE IF title # None /\ title # "" THEN Strip(title)
    ELSE "Program"

\* lines 284-313, entered from line 389: the page has no specialization heading.
\* Without an h1 the walk starts at soup.body.contents[0]: None when the page
\* has no body, an IndexError (caught by scrape_program, lines 398-402) when the
\* body is empty.
BeginFallback ==
    /\ UNCHANGED <<blockVars, normVars, batchVars, mergeVars, courseVars>>
    /\ pc = "for"
    /\ idx > Len(spec_headers)
    /\ results = <<>>
    /\ \E t \in TitleStrings, b \in BOOLEAN :
          LET h1 == FindH1(Nodes) IN
          /\ soup_title' = t
          /\ has_body' = b
          /\ spec_name' = FallbackName(Nodes, t)
          /\ IF h1 = 0 /\ b /\ Nodes = <<>>
             THEN /\ err' = "list index out of range"
                  /\ pc' = "done"
                  /\ node' = node
             ELSE /\ err' = err
                  /\ pc' = "fb_walk"
                  /\ node' = IF h1 # 0 THEN NextSibling(h1)
                             ELSE IF b THEN 1
                             ELSE NumNodes + 1
    /\ years' = <<>>
    /\ current_year' = None
    /\ current_entries' = <<>>
    /\ visited' = {}
    /\ year_pos' = 0
    /\ steps' = 0
    /\ UNCHANGED <<page, spec_headers, idx, results, collected>>

\* lines 316-353: one iteration of the fallback's while loop
FallbackStep ==
    /\ UNCHANGED <<blockVars, normVars, batchVars, mergeVars, courseVars>>
    /\ pc = "fb_walk"
    /\ node <= NumNodes
    /\ node \notin visited
    /\ visited' = visited \cup {node}
    /\ LET n == Nodes[node]
           text == get_text(n)
       IN  IF ~n.tag
           THEN UNCHANGED <<current_year, current_entries, years, year_pos, collected>>
           ELSE IF is_year_heading(text)
           THEN /\ years' = Flush(years, current_year, current_entries)
                /\ current_entries' =
                       IF current_year # None /\ current_entries # <<>>
                       THEN <<>> ELSE current_entries
                /\ current_year' = text
                /\ year_pos' = node
                /\ UNCHANGED collected
           ELSE LET got == CollectedLine(n, current_year) IN
                /\ current_entries' = current_entries \o got
                /\ collected' =
                       IF got # <<>>
                       THEN collected \cup {Origin(0, year_pos, node)}
                       ELSE collected
                /\ UNCHANGED <<current_year, years, year_pos>>
    /\ node' = NextSibling(node)
    /\ steps' = steps + 1
    /\ UNCHANGED <<pc, page, spec_headers, idx, spec_name, results, err, soup_title, has_body>>

\* lines 316-319 and 355-370: the loop ends (no node left, or a node seen
\* before); the open sub-group is flushed and the single record returned
EndFallback ==
    /\ UNCHANGED <<blockVars, normVars, batchVars, mergeVars, courseVars>>
    /\ pc = "fb_walk"
    /\ node > NumNodes \/ node \in visited
    /\ years' = Flush(years, current_year, current_entries)
    /\ results' = <<[specialization_name |-> spec_name,
                     years_raw |-> Flush(years, current_year, current_entries)]>>
    /\ pc' = "done"
    /\ UNCHANGED <<page, spec_headers, idx, node, spec_name, current_year,
                   current_entries, visited, err, soup_title, has_body, year_pos, collected, steps>>

NextRaw ==
    \/ CollectHeaders
    \/ BeginSection
    \/ SectionStep
    \/ EndSection
    \/ ReturnSpecs
    \/ BeginFallback
    \/ FallbackStep
    \/ EndFallback

SpecRaw == InitRaw /\ [][NextRaw]_vars


(***************************************************************************)
(* Properties of the requirements scraper (SpecRaw).                       *)
(***************************************************************************)
\* the heading levels extract_specializations_with_headings collects (line 207)
\* the text of each node a page can hold, and what the two classifiers make of it
TextOf == [n \in RawNodes |-> get_text(n)]
NamesSection == [n \in RawNodes |-> is_specialization_heading(get_text(n))]
NamesYear == [n \in RawNodes |-> is_year_heading(get_text(n))]

IsSectionHeading(n) ==
    n.tag /\ n.name \in {"h3", "h4"} /\ NamesSection[n]

\* a heading-level tag that names neither a section nor a year
IsOtherHeading(n) ==
    /\ n.tag
    /\ n.name \in {"h2", "h3", "h4"}
    /\ ~NamesSection[n]
    /\ ~NamesYear[n]

IsYearNode(n) == n.tag /\ NamesYear[n]

\* positions of the section headings of the page
SectionHeadings == {j \in 1..NumNodes : IsSectionHeading(Nodes[j])}

\* where the section started at `start` ends: the next section heading, or past the last node
SectionStop(start) ==
    IF \E j \in SectionHeadings : j > start
    THEN CHOOSE j \in SectionHeadings : j > start /\ \A k \in SectionHeadings : k > start => j <= k
    ELSE NumNodes + 1

\* node j gives a line to the walk started at `start`
Contributes(start, j) ==
    /\ Nodes[j].tag
    /\ Nodes[j].name \in {"p", "div", "li"}
    /\ TextOf[Nodes[j]] # ""
    /\ ~NamesYear[Nodes[j]]
    /\ \E y \in (start + 1)..(j - 1) : IsYearNode(Nodes[y])

RECURSIVE LinesBetween(_, _, _)
\* the texts of the contributing nodes from position j up to `stop` (exclusive), in order
LinesBetween(start, j, stop) ==
    IF j >= stop THEN <<>>
    ELSE (IF Contributes(start, j) THEN <<TextOf[Nodes[j]]>> ELSE <<>>)
         \o LinesBetween(start, j + 1, stop)

RECURSIVE AllLines(_)
\* the raw_lines of the sub-groups of one record, concatenated
AllLines(ys) ==
    IF ys = <<>> THEN <<>> ELSE Head(ys).raw_lines \o AllLines(Tail(ys))

\* the raw_lines blocks of every record produced so far
EmittedBlocks ==
    UNION {{results[i].years_raw[k].raw_lines : k \in 1..Len(results[i].years_raw)} :
              i \in 1..Len(results)}

\* C1 as stated: in the heading-based walk the first heading-level tag that is
\* neither a section heading nor a year heading ends the walk, so that no line
\* comes from a node after it.
C1_OtherHeadingTerminates ==
    \A c \in collected :
        c.start # 0 => \A h \in (c.start + 1)..c.pos : ~IsOtherHeading(Nodes[h])

\* C1 amended: the heading-based walk ends only at the next h3/h4 specialization
\* heading (or at the last sibling); every other heading-level tag is passed
\* over without giving a line, and the p/div/li nodes after it still give
\* theirs: the lines of each record are exactly the texts of the contributing
\* nodes between its heading and the next section heading, in document order.
C1_WalkEndsOnlyAtSectionHeading ==
    \A i \in 1..Len(results) :
        spec_headers # <<>> =>
            AllLines(results[i].years_raw) =
                LinesBetween(spec_headers[i], spec_headers[i] + 1,
                             SectionStop(spec_headers[i]))

\* a finished record holds a line taken from behind a heading such as "Notes"
C1_Witness ==
    /\ pc = "done"
    /\ \E c \in collected :
          c.start # 0 /\ \E h \in (c.start + 1)..c.pos : IsOtherHeading(Nodes[h])


\* the page of the spec's section-boundary example
ExamplePage ==
    << TagNode("h3", <<"Major in X">>), TagNode("h3", <<"First Year">>),
       TagNode("p", <<"line1">>), TagNode("h4", <<" Major in Y\n">>) >>

\* C2: segmenting from a section heading stops before the next section heading
\* among its following siblings without consuming it: no line of a record comes
\* from a node at or after that heading, the heading starts the next record, and
\* the example page gives "Major in X" the single sub-group "First Year" with
\* the single line "line1".
C2_StopsBeforeNextSection ==
    /\ \A c \in collected :
          c.start # 0 => \A h \in (c.start + 1)..c.pos : ~IsSectionHeading(Nodes[h])
    /\ (pc = "done" /\ Nodes = ExamplePage) =>
          results = << [specialization_name |-> "Major in X",
                        years_raw |-> << [year_label |-> "First Year",
                                          raw_lines |-> <<"line1">>] >>],
                       [specialization_name |-> "Major in Y", years_raw |-> <<>>] >>

\* the example page has been segmented
C2_Witness == pc = "done" /\ Nodes = ExamplePage /\ Len(results) = 2

HasDuplicate(q) ==
    \E i, j \in 1..Len(q) : i < j /\ q[i] = q[j]

\* C7 as stated: every raw line of every emitted block has at least 3
\* characters after trimming and no block holds the same string twice.
C7_LinesCleaned ==
    \A b \in EmittedBlocks :
        /\ \A k \in 1..Len(b) : Len(Strip(b[k])) >= 3
        /\ ~HasDuplicate(b)

\* C7 amended: every raw line of every emitted years_raw block (heading-based
\* extraction and fallback) is trimmed and non-empty, and no block is empty;
\* lines under 3 characters and repeated lines are kept as collected.
C7_LinesTrimmedNonEmpty ==
    \A b \in EmittedBlocks :
        /\ b # <<>>
        /\ \A k \in 1..Len(b) : Strip(b[k]) = b[k] /\ Len(b[k]) >= 1

\* an emitted block with a 2-character line, and one with a repeated line
C7_Witness ==
    /\ pc = "done"
    /\ \E b \in EmittedBlocks : \E k \in 1..Len(b) : Len(b[k]) < 3
    /\ \E b \in EmittedBlocks : HasDuplicate(b)

IsHeadingTag(n) == n.tag /\ n.name \in {"h1", "h2", "h3", "h4", "h5", "h6"}

\* a step of either walk over the node at `node`
WalkStep == pc \in {"walk", "fb_walk"} /\ pc' = pc /\ node' # node

\* what a walk step over a sub-group boundary does
OpensSubGroup(text) ==
    /\ years' = IF current_year # None /\ current_entries # <<>>
                THEN Append(years, [year_label |-> current_year,
                                    raw_lines |-> current_entries])
                ELSE years
    /\ current_year' = text
    /\ current_entries' \in {<<>>, current_entries}
    /\ (current_year # None /\ current_entries # <<>>) => current_entries' = <<>>

\* what a walk step over any other node does
KeepsSubGroup == years' = years /\ current_year' = current_year

\* C8 as stated: only a heading node that is a year heading ends the sub-group
\* and starts a new one (flushing the lines iff a label exists and a line was
\* collected, never emitting its own text); a non-heading node starts none.
C8_OnlyHeadingsOpenSubGroups ==
    [][WalkStep =>
          IF IsHeadingTag(Nodes[node]) /\ NamesYear[Nodes[node]]
          THEN OpensSubGroup(TextOf[Nodes[node]])
          ELSE KeepsSubGroup]_vars

\* C8 amended: every tag node whose flattened text is a year heading, whether a
\* heading tag or not (a paragraph "Second Year" too), ends the sub-group and
\* starts a new one labelled with its text: the lines so far are flushed under
\* the previous label iff there is one and a line was collected, and its text
\* is not emitted as a raw line; every other node starts no sub-group.
C8_YearNodesOpenSubGroups ==
    [][WalkStep =>
          IF Nodes[node].tag /\ NamesYear[Nodes[node]]
          THEN OpensSubGroup(TextOf[Nodes[node]])
          ELSE KeepsSubGroup]_vars

\* a paragraph opened the current sub-group and closed one that had lines
C8_Witness ==
    /\ year_pos # 0
    /\ ~IsHeadingTag(Nodes[year_pos])
    /\ years # <<>>
    /\ current_year = "Second Year"

\* C10: when the page has a section heading among the heading levels the
\* extraction collects (h3, h4), the result is one record per such heading, in
\* document order, each named by its heading's text, and the fallback is not run.
C10_OneRecordPerHeading ==
    SectionHeadings # {} =>
        /\ pc # "fb_walk"
        /\ err = None
        /\ pc = "done" =>
              /\ Len(results) = Cardinality(SectionHeadings)
              /\ \A i \in 1..Len(results) :
                    \E h \in SectionHeadings :
                        /\ Cardinality({j \in SectionHeadings : j < h}) = i - 1
                        /\ results[i].specialization_name = TextOf[Nodes[h]]

\* a page with two section headings of different names has been extracted
C10_Witness ==
    /\ pc = "done"
    /\ Len(results) = 2
    /\ results[1].specialization_name # results[2].specialization_name


\* the name the spec gives the single section of a page without section headings
TitleName ==
    IF \E j \in 1..NumNodes : Nodes[j].tag /\ Nodes[j].name = "h1"
    THEN get_text(Nodes[CHOOSE j \in 1..NumNodes :
                            /\ Nodes[j].tag /\ Nodes[j].name = "h1"
                            /\ \A k \in 1..(j - 1) : ~(Nodes[k].tag /\ Nodes[k].name = "h1")])
    ELSE IF soup_title # None THEN Strip(soup_title)
    ELSE "Program"

\* C11: a page without a section heading gives exactly one record, named by
\* the text of its h1 if it has one, otherwise by the document title if there
\* is one, otherwise "Program".
C11_FallbackOneNamedRecord ==
    (pc = "done" /\ SectionHeadings = {}) =>
        /\ Len(results) = 1
        /\ results[1].specialization_name = TitleName

\* the extraction of a page with a title, no h1 and an empty body has ended
\* with an IndexError and no record
C11_Witness ==
    /\ pc = "done"
    /\ SectionHeadings = {}
    /\ Nodes = <<>>
    /\ has_body
    /\ soup_title # None
    /\ err = "list index out of range"
    /\ results = <<>>

\* the name rule on the pages whose extraction returns
C11_NamedWhenReturned ==
    (pc = "done" /\ SectionHeadings = {} /\ err = None) =>
        /\ Len(results) = 1
        /\ results[1].specialization_name = TitleName


\* where the walk of the i-th record starts and where it stops: at a section
\* heading and the next one, or for the whole-page fallback after the h1 (at
\* the first node of the body without h1, nowhere without a body) and at the end
WalkStart(i) ==
    IF spec_headers # <<>> THEN spec_headers[i]
    ELSE IF FindH1(Nodes) # 0 THEN FindH1(Nodes)
    ELSE IF has_body THEN 0
    ELSE NumNodes

WalkStop(i) == IF spec_headers # <<>> THEN SectionStop(spec_headers[i]) ELSE NumNodes + 1

\* the year headings met by the walk of the i-th record
YearNodes(i) == {y \in (WalkStart(i) + 1)..(WalkStop(i) - 1) : IsYearNode(Nodes[y])}

\* where the sub-group opened at y ends: the next year heading, or the end of the walk
YearStop(i, y) ==
    IF \E z \in YearNodes(i) : z > y
    THEN CHOOSE z \in YearNodes(i) : z > y /\ \A w \in YearNodes(i) : w > y => z <= w
    ELSE WalkStop(i)

\* a p, div or li with text
IsLineNode(j) ==
    Nodes[j].tag /\ Nodes[j].name \in {"p", "div", "li"} /\ TextOf[Nodes[j]] # ""

\* the texts of the line nodes after the year heading y and before the next one
LinesAfter(i, y) ==
    LET span == [m \in 1..(YearStop(i, y) - y - 1) |-> y + m]
        at == SelectSeq(span, IsLineNode)
    IN  [m \in 1..Len(at) |-> TextOf[Nodes[at[m]]]]

\* the year heading y is followed by a line before the next one
IsFilledYear(i, y) == IsYearNode(Nodes[y]) /\ LinesAfter(i, y) # <<>>

\* the entries the walk of the i-th record owes: one per year heading followed
\* by a line, in document order, with the heading's text and those lines
YearEntries(i) ==
    LET span == [m \in 1..(WalkStop(i) - WalkStart(i) - 1) |-> WalkStart(i) + m]
        filled == SelectSeq(span, LAMBDA y : IsFilledYear(i, y))
    IN  [k \in 1..Len(filled) |->
            [year_label |-> TextOf[Nodes[filled[k]]],
             raw_lines |-> LinesAfter(i, filled[k])]]

\* C18: in the heading-based extraction and in the whole-page fallback the
\* content before the first year heading of a section is discarded and a year
\* heading followed by no line gives no entry: the entries of years_raw are,
\* in document order, those of the year headings followed by a line, each with
\* the heading's text as year_label (accepted by is_year_heading) and, as
\* non-empty raw_lines, exactly the lines between it and the next year heading.
C18_YearEntries ==
    \A i \in 1..Len(results) :
        /\ results[i].years_raw = YearEntries(i)
        /\ \A k \in 1..Len(results[i].years_raw) :
              /\ is_year_heading(results[i].years_raw[k].year_label)
              /\ results[i].years_raw[k].raw_lines # <<>>

\* the fallback has walked a page with a line before the first year heading,
\* a year heading followed at once by another, and a line after that one
C18_Witness ==
    /\ pc = "done"
    /\ spec_headers = <<>>
    /\ NumNodes = 4
    /\ IsLineNode(1)
    /\ YearNodes(1) = {2, 3}
    /\ IsLineNode(4)
    /\ Len(results) = 1
    /\ results[1].years_raw =
           <<[year_label |-> TextOf[Nodes[3]], raw_lines |-> <<TextOf[Nodes[4]]>>]>>


(***************************************************************************)
(* ai_parse_requirements.py: normalize_text.                               *)
(***************************************************************************)
RECURSIVE CollapseWS_Pairs(_)
\* mutant: s.replace("  ", " ") in one pass: two white-space characters become one space
CollapseWS_Pairs(s) ==
    IF Len(s) = 0 THEN ""
    ELSE IF Len(s) >= 2 /\ IsWS(SubSeq(s, 1, 1)) /\ IsWS(SubSeq(s, 2, 2))
         THEN " " \o CollapseWS_Pairs(SubSeq(s, 3, Len(s)))
    ELSE IF IsWS(SubSeq(s, 1, 1))
         THEN " " \o CollapseWS_Pairs(SubSeq(s, 2, Len(s)))
    ELSE SubSeq(s, 1, 1) \o CollapseWS_Pairs(SubSeq(s, 2, Len(s)))

RECURSIVE CollapseWS(_)
\* re.sub(r"\s+", " ", s): every maximal run of white space becomes one space
CollapseWS(s) ==
    IF Len(s) = 0 THEN ""
    ELSE IF IsWS(SubSeq(s, 1, 1)) THEN " " \o CollapseWS(LStrip(s))
    ELSE SubSeq(s, 1, 1) \o CollapseWS(SubSeq(s, 2, Len(s)))

UpperCase == "ABCDEFGHIJKLMNOPQRSTUVWXYZ"
LowerCase == "abcdefghijklmnopqrstuvwxyz"

\* the upper-case letters, and the lower-case letter of each
UpperSet == {SubSeq(UpperCase, i, i) : i \in 1..Len(UpperCase)}
LowerOf == [c \in UpperSet |->
               LET i == CHOOSE i \in 1..Len(UpperCase) : SubSeq(UpperCase, i, i) = c
               IN  SubSeq(LowerCase, i, i)]

LowerChar(c) == IF c \in UpperSet THEN LowerOf[c] ELSE c

RECURSIVE Lower(_)
\* str.lower()
Lower(s) ==
    IF Len(s) = 0 THEN "" ELSE LowerChar(SubSeq(s, 1, 1)) \o Lower(SubSeq(s, 2, Len(s)))

normalize_text(s) == Lower(Strip(CollapseWS(s)))

\* the characters the strings handed to normalize_text are made of
NormChars == {" ", "\t", "a", "B"}

RECURSIVE StringsUpTo(_, _)
\* all strings over the characters C of length at most n
StringsUpTo(C, n) ==
    IF n = 0 THEN {""}
    ELSE LET P == StringsUpTo(C, n - 1) IN
         P \cup {q \o c : q \in {r \in P : Len(r) = n - 1}, c \in C}

InitNorm ==
    /\ pc = "norm"
    /\ page = [nodes |-> <<>>]
    /\ node = 0
    /\ steps = 0
    /\ RawIdle
    /\ BlockIdle
    /\ CourseIdle
    /\ BatchIdle
    /\ MergeIdle
    /\ s_in \in StringsUpTo(NormChars, MaxStrLen)
    /\ normalized = <<>>

\* normalize_text applied to the input, then to its own result
Normalize ==
    /\ pc = "norm"
    /\ Len(normalized) < MaxApplications
    /\ normalized' =
           Append(normalized,
                  normalize_text(IF normalized = <<>> THEN s_in
                                 ELSE normalized[Len(normalized)]))
    /\ UNCHANGED <<pc, page, node, steps, rawVars, blockVars, courseVars, batchVars, mergeVars, s_in>>

NextNorm == Normalize

SpecNorm == InitNorm /\ [][NextNorm]_vars

\* C5: normalize_text is idempotent: applying it again to its own result gives
\* that result.
C5_NormalizeIdempotent ==
    \A k \in 2..Len(normalized) : normalized[k] = normalized[1]

\* a string with upper case and a run of white space inside has been normalized twice
C5_Witness ==
    /\ Len(normalized) = 2
    /\ s_in = "a \tB"
    /\ normalized[1] = "a b"


(***************************************************************************)
(* ai_parse_requirements.py: find_specialization_heading.                  *)
(***************************************************************************)
RECURSIVE FlatStrs(_)
\* the raw strings of a sequence of nodes, in document order
FlatStrs(kids) ==
    IF kids = <<>> THEN <<>> ELSE Head(kids).strs \o FlatStrs(Tail(kids))

\* a <ul> or <ol> and its direct children
ListNode(name, kids) ==
    [tag |-> TRUE, name |-> name, strs |-> FlatStrs(kids), kids |-> kids]

RECURSIVE FlatRows(_)
FlatRows(rows) ==
    IF rows = <<>> THEN <<>> ELSE Head(rows) \o FlatRows(Tail(rows))

\* a <table>: its rows, each the raw strings of its td/th cells
TableNode(rows) ==
    [tag |-> TRUE, name |-> "table", strs |-> FlatRows(rows), rows |-> rows]

\* the nodes the pages handed to process_specialization are built from
BlockNodes ==
    { TagNode("h2", <<"Major in CS">>),
      TagNode("h3", <<"Minor  in\tCS">>),
      TagNode("h3", <<"CS">>),
      TagNode("h4", <<" ">>),
      TagNode("p", <<"Take MATH 100">>),
      ListNode("ul", << TagNode("li", <<" CS 101">>), StrNode("\n"),
                        TagNode("li", <<"OK">>), TagNode("li", <<"">>) >>),
      TableNode(<< <<"CPSC 110", "", "3">>, <<"", " ">> >>),
      StrNode("\n") }

\* the specialization names looked for
Targets == {"CS", "Minor in  cs", ""}

\* mutant: a heading contained in the target is not accepted
Matches_OneWay(t, h) == t = h \/ IsSubstr(t, h)

\* line 61: equal, contains, or contained in
Matches(t, h) == t = h \/ IsSubstr(t, h) \/ IsSubstr(h, t)

AbsDiff(a, b) == IF a >= b THEN a - b ELSE b - a

\* line 63
Score(t, h) == AbsDiff(Len(h), Len(t))

\* mutant: a later heading with the same score replaces the best one
Better_OrEqual(score, best, best_score) == best = 0 \/ score <= best_score

\* line 64
Better(score, best, best_score) == best = 0 \/ score < best_score

RECURSIVE FindFrom(_, _, _, _, _)
\* lines 55-68: the loop over soup.find_all(["h2", "h3", "h4"]); 0 stands for None
FindFrom(nodes, t, i, best, best_score) ==
    IF i > Len(nodes) THEN best
    ELSE IF ~(nodes[i].tag /\ nodes[i].name \in {"h2", "h3", "h4"})
         THEN FindFrom(nodes, t, i + 1, best, best_score)
    ELSE LET h == normalize_text(get_text(nodes[i])) IN
         IF h = "" THEN FindFrom(nodes, t, i + 1, best, best_score)
         ELSE IF Matches(t, h) /\ Better(Score(t, h), best, best_score)
              THEN FindFrom(nodes, t, i + 1, i, Score(t, h))
         ELSE FindFrom(nodes, t, i + 1, best, best_score)

find_specialization_heading(nodes, specialization_name) ==
    FindFrom(nodes, normalize_text(specialization_name), 1, 0, 0)

(***************************************************************************)
(* ai_parse_requirements.py: extract_requirement_lines_from_block.         *)
(***************************************************************************)
is_block_terminator(n) == n.tag /\ n.name \in {"h2", "h3", "h4"}

RECURSIVE NonEmptyTexts(_)
\* the flattened texts of the <li> among the nodes, the empty ones left out
NonEmptyTexts(kids) ==
    IF kids = <<>> THEN <<>>
    ELSE (IF Head(kids).tag /\ Head(kids).name = "li" /\ get_text(Head(kids)) # ""
          THEN <<get_text(Head(kids))>> ELSE <<>>)
         \o NonEmptyTexts(Tail(kids))

RECURSIVE NonEmptyCells(_)
\* [c.get_text(" ", strip=True) for c in cells] filtered by `if c`
NonEmptyCells(cells) ==
    IF cells = <<>> THEN <<>>
    ELSE (IF Strip(Head(cells)) # "" THEN <<Strip(Head(cells))>> ELSE <<>>)
         \o NonEmptyCells(Tail(cells))

\* mutant: the empty cells are joined too
RowText_KeepsEmpty(cells) == JoinWith(" | ", [k \in 1..Len(cells) |-> Strip(cells[k])])

\* lines 122-123
RowText(cells) == JoinWith(" | ", NonEmptyCells(cells))

RECURSIVE RowLines(_)
\* lines 121-125
RowLines(rows) ==
    IF rows = <<>> THEN <<>>
    ELSE (IF RowText(Head(rows)) # "" THEN <<RowText(Head(rows))>> ELSE <<>>)
         \o RowLines(Tail(rows))

\* lines 106-125: the lines one tag node adds
NodeLines(n) ==
    IF n.name \in {"p", "div"}
    THEN (IF get_text(n) # "" THEN <<get_text(n)>> ELSE <<>>)
    ELSE IF n.name \in {"ul", "ol"} THEN NonEmptyTexts(n.kids)
    ELSE IF n.name = "table" THEN RowLines(n.rows)
    ELSE <<>>

RECURSIVE KeepLong(_)
\* mutant: short lines are dropped but duplicates are kept
KeepLong(ls) ==
    IF ls = <<>> THEN <<>>
    ELSE (IF Len(Strip(Head(ls))) < 3 THEN <<>> ELSE <<Strip(Head(ls))>>)
         \o KeepLong(Tail(ls))

RECURSIVE CleanFrom(_, _, _)
\* lines 130-139
CleanFrom(ls, seen, cleaned) ==
    IF ls = <<>> THEN cleaned
    ELSE LET ln_stripped == Strip(Head(ls)) IN
         IF Len(ln_stripped) < 3 THEN CleanFrom(Tail(ls), seen, cleaned)
         ELSE IF ln_stripped \in seen THEN CleanFrom(Tail(ls), seen, cleaned)
         ELSE CleanFrom(Tail(ls), seen \cup {ln_stripped}, Append(cleaned, ln_stripped))

\* mutant of CleanLines
CleanLines_KeepsDuplicates(ls) == KeepLong(ls)

\* lines 129-141: the post-processing of the collected lines
CleanLines(ls) == CleanFrom(ls, {}, <<>>)

(***************************************************************************)
(* ai_parse_requirements.py: process_specialization.                       *)
(***************************************************************************)
\* the page and the name of the spec's heading-match example
ExampleHeadings ==
    << TagNode("h3", <<"Major in Computer Science">>),
       TagNode("h3", <<"Minor in Statistics">>) >>
ExampleTarget == "Computer Science"

InitBlock ==
    /\ pc = "b_find"
    /\ \/ /\ page \in {[nodes |-> q] : q \in SeqsUpTo(BlockNodes, MaxBlockNodes)}
          /\ target \in Targets
       \/ /\ page = [nodes |-> ExampleHeadings]
          /\ target = ExampleTarget
    /\ heading = 0
    /\ lines = <<>>
    /\ requirements_raw = None
    /\ node = 0
    /\ steps = 0
    /\ RawIdle
    /\ NormIdle
    /\ CourseIdle
    /\ BatchIdle
    /\ MergeIdle

\* lines 248-255 and 84-91: look for the heading; without one the record gets no lines
FindHeading ==
    /\ pc = "b_find"
    /\ LET h == find_specialization_heading(Nodes, target) IN
       /\ heading' = h
       /\ IF h = 0
          THEN /\ requirements_raw' = <<>>
               /\ pc' = "b_done"
               /\ node' = node
          ELSE /\ requirements_raw' = requirements_raw
               /\ pc' = "b_walk"
               /\ node' = NextSibling(h)
    /\ lines' = <<>>
    /\ steps' = 0
    /\ UNCHANGED <<page, target, rawVars, normVars, batchVars, mergeVars, courseVars>>

\* lines 93-127: one iteration of the while loop that does not leave it
BlockStep ==
    /\ pc = "b_walk"
    /\ node <= NumNodes
    /\ ~is_block_terminator(Nodes[node])
    /\ lines' = IF Nodes[node].tag THEN lines \o NodeLines(Nodes[node]) ELSE lines
    /\ node' = NextSibling(node)
    /\ steps' = steps + 1
    /\ UNCHANGED <<pc, page, target, heading, requirements_raw, rawVars, normVars, batchVars, mergeVars, courseVars>>

\* lines 93, 102-104, 129-141 and 257-260: the loop ends (no node left, or a
\* terminator); the lines are cleaned and stored in the record
BlockEnd ==
    /\ pc = "b_walk"
    /\ IF node > NumNodes THEN TRUE ELSE is_block_terminator(Nodes[node])
    /\ requirements_raw' = CleanLines(lines)
    /\ pc' = "b_done"
    /\ UNCHANGED <<page, node, steps, target, heading, lines, rawVars, normVars, batchVars, mergeVars, courseVars>>

NextBlock ==
    \/ FindHeading
    \/ BlockStep
    \/ BlockEnd

SpecBlock == InitBlock /\ [][NextBlock]_vars


(***************************************************************************)
(* Properties of the heading matcher and the block walk (SpecBlock).       *)
(***************************************************************************)
\* the headings find_specialization_heading looks at
HeadingPositions == {j \in 1..NumNodes : Nodes[j].tag /\ Nodes[j].name \in {"h2", "h3", "h4"}}

\* the normalized text of each heading a page can hold, and of each name looked for
HeadingNodes ==
    {n \in BlockNodes \cup {ExampleHeadings[k] : k \in 1..Len(ExampleHeadings)} :
        n.tag /\ n.name \in {"h2", "h3", "h4"}}
NormOfHeading == [n \in HeadingNodes |-> normalize_text(get_text(n))]
NormOfTarget == [t \in Targets \cup {ExampleTarget} |-> normalize_text(t)]

NormHead(j) == NormOfHeading[Nodes[j]]
NormTarget == NormOfTarget[target]

\* equal, or one a substring of the other
Fuzzy(a, b) == a = b \/ IsSubstr(a, b) \/ IsSubstr(b, a)

\* the headings the matcher scores: non-empty normalized text that matches
Candidates ==
    LET t == NormTarget IN
    {j \in HeadingPositions : LET h == NormHead(j) IN h # "" /\ Fuzzy(h, t)}

LengthDelta(j) == AbsDiff(Len(NormHead(j)), Len(NormTarget))

\* C3 as stated: the heading returned has the smallest absolute length
\* difference to the normalized target among all headings whose normalized
\* text equals the normalized target or is a substring of it or contains it
\* (a heading with empty normalized text included), the first such on ties.
C3_BestAmongAllFuzzy ==
    (pc # "b_find" /\ heading # 0) =>
        \A j \in HeadingPositions :
            Fuzzy(NormHead(j), NormTarget) =>
                /\ LengthDelta(heading) <= LengthDelta(j)
                /\ LengthDelta(j) = LengthDelta(heading) => heading <= j

\* C3 amended: among the headings with non-empty normalized text that match
\* the target, find_specialization_heading returns one whose normalized text
\* has the smallest absolute length difference to the normalized target, and
\* among several with that smallest difference the first in document order;
\* in the spec's example it returns the first heading.
C3_BestMatchFirstOnTies ==
    /\ (pc # "b_find" /\ Nodes = ExampleHeadings /\ target = ExampleTarget) => heading = 1
    /\ (pc # "b_find" /\ heading # 0) =>
          LET among == Candidates
              delta == [j \in among |-> LengthDelta(j)]
          IN  /\ heading \in among
              /\ \A j \in among :
                    /\ delta[heading] <= delta[j]
                    /\ delta[j] = delta[heading] => heading <= j

\* the heading returned is not the first match, and a later match ties with it
C3_Witness ==
    /\ pc # "b_find"
    /\ heading # 0
    /\ \E j \in Candidates : j < heading /\ LengthDelta(j) > LengthDelta(heading)
    /\ \E j \in Candidates : j > heading /\ LengthDelta(j) = LengthDelta(heading)

\* C4 as stated: None is returned exactly when no heading is a candidate, a
\* heading being a candidate iff its normalized text equals the normalized
\* target or one is a substring of the other, a heading with empty normalized
\* text included.
C4_NoneIffNoFuzzyHeading ==
    pc # "b_find" =>
        (heading = 0 <=> ~\E j \in HeadingPositions : Fuzzy(NormHead(j), NormTarget))

\* C4 amended: None is returned exactly when no heading is a candidate, a
\* heading being a candidate iff its normalized text is not empty and equals
\* the normalized target or one is a substring of the other; a heading whose
\* normalized text is empty is skipped and is never a candidate.
C4_NoneIffNoCandidate ==
    pc # "b_find" => (heading = 0 <=> Candidates = {})

\* None was returned for a page whose only headings have no text
C4_Witness ==
    /\ pc # "b_find"
    /\ heading = 0
    /\ HeadingPositions # {}
    /\ \A j \in HeadingPositions : NormHead(j) = ""

\* the first position of the collected lines whose trimmed text is x
FirstAt(x) == CHOOSE i \in 1..Len(lines) :
                  Strip(lines[i]) = x /\ \A k \in 1..(i - 1) : Strip(lines[k]) # x

\* C6: the post-processing returns exactly the collected lines, each trimmed,
\* without the lines shorter than 3 characters after trimming and without the
\* later exact duplicates, in the order of their first occurrences.
C6_CleanedLines ==
    (pc = "b_done" /\ heading # 0) =>
        LET r == requirements_raw IN
        /\ \A k \in 1..Len(r) :
              Len(r[k]) >= 3 /\ \E i \in 1..Len(lines) : Strip(lines[i]) = r[k]
        /\ \A i \in 1..Len(lines) :
              Len(Strip(lines[i])) >= 3 => \E k \in 1..Len(r) : r[k] = Strip(lines[i])
        /\ \A k1, k2 \in 1..Len(r) : k1 < k2 =>
              r[k1] # r[k2] /\ FirstAt(r[k1]) < FirstAt(r[k2])

\* two paragraphs "Take MATH 100" gave one line, "OK" was dropped, "CS 101" kept
C6_Witness ==
    /\ pc = "b_done"
    /\ lines = <<"Take MATH 100", "Take MATH 100", "CS 101", "OK">>
    /\ requirements_raw = <<"Take MATH 100", "CS 101">>

\* the line of a table row: its non-empty cell texts, in cell order, joined
NotEmpty(str) == str # ""
RowLine(cells) ==
    JoinWith(" | ", SelectSeq([k \in 1..Len(cells) |-> Strip(cells[k])], NotEmpty))

\* the lines of a table: one per row that has a non-empty cell, in row order
TableLines(rows) == SelectSeq([k \in 1..Len(rows) |-> RowLine(rows[k])], NotEmpty)

\* an iteration of the block walk over a table
TableStep ==
    /\ pc = "b_walk"
    /\ pc' = "b_walk"
    /\ Nodes[node].tag
    /\ Nodes[node].name = "table"

\* C17: a table met during the block walk adds one line per row, the row's
\* non-empty cell texts joined with " | " in cell order, and nothing for a row
\* without a non-empty cell; the cells "CPSC 110", "", "3" give "CPSC 110 | 3".
C17_TableRowsJoined ==
    /\ [](RowText(<<"CPSC 110", "", "3">>) = "CPSC 110 | 3")
    /\ [][TableStep => lines' = lines \o TableLines(Nodes[node].rows)]_vars

\* the walk has passed a table right after the heading: its first row gave
\* the one line, its second row (empty cells only) none
C17_Witness ==
    /\ pc = "b_walk"
    /\ node = heading + 2
    /\ Nodes[heading + 1].tag
    /\ Nodes[heading + 1].name = "table"
    /\ Len(Nodes[heading + 1].rows) = 2
    /\ lines = <<"CPSC 110 | 3">>


(***************************************************************************)
(* ubc_prereq_scraper.py: parse_course_heading.                            *)
(***************************************************************************)
Digits == {"0", "1", "2", "3", "4", "5", "6", "7", "8", "9"}

RECURSIVE Span(_, _, _)
\* the length of the longest run of characters of C that starts at position i
Span(s, i, C) ==
    IF i <= Len(s) /\ SubSeq(s, i, i) \in C THEN 1 + Span(s, i + 1, C) ELSE 0

\* the character at position i ("" past the end)
CharAt(s, i) == IF i >= 1 /\ i <= Len(s) THEN SubSeq(s, i, i) ELSE ""

NoMeta(t) ==
    [subject |-> None, campus_suffix |-> None, number |-> None,
     credits |-> None, title |-> t]

\* lines 43-60: re.match(r"([A-Z]+)(_V)?\s+(\d+[A-Z]?)\s+\((\d+)\)\s+(.*)", text).
\* Every greedy choice is forced (what follows a run cannot start inside it),
\* so the match is found without backtracking.
MatchHeading(t) ==
    LET a == Span(t, 1, UpperSet)
        i1 == 1 + a
        v == IF CharAt(t, i1) = "_" /\ CharAt(t, i1 + 1) = "V" THEN 2 ELSE 0
        i2 == i1 + v
        w1 == Span(t, i2, WS)
        i3 == i2 + w1
        d == Span(t, i3, Digits)
        l == IF d >= 1 /\ CharAt(t, i3 + d) \in UpperSet THEN 1 ELSE 0
        i4 == i3 + d + l
        w2 == Span(t, i4, WS)
        i5 == i4 + w2
        c == Span(t, i5 + 1, Digits)
        i6 == i5 + 1 + c
        w3 == Span(t, i6 + 1, WS)
        i7 == i6 + 1 + w3
    IN  IF /\ a >= 1 /\ w1 >= 1 /\ d >= 1 /\ w2 >= 1
           /\ CharAt(t, i5) = "(" /\ c >= 1 /\ CharAt(t, i6) = ")" /\ w3 >= 1
        THEN [subject |-> SubSeq(t, 1, a),
              campus_suffix |-> IF v = 2 THEN "_V" ELSE "",
              number |-> SubSeq(t, i3, i4 - 1),
              credits |-> SubSeq(t, i5 + 1, i6 - 1),
              title |-> Strip(SubSeq(t, i7, Len(t)))]
        ELSE NoMeta(t)

\* line 41: " ".join(h3_text.split())
parse_course_heading(h3_text) == MatchHeading(Strip(CollapseWS(h3_text)))

(***************************************************************************)
(* ubc_prereq_scraper.py: extract_course_block and parse_subject_page.     *)
(***************************************************************************)
\* the nodes the subject pages are built from
CourseNodes ==
    { TagNode("h3", <<"CPSC_V 110", " (4)  Computation">>),
      TagNode("h3", <<"Lab\n 2">>),
      TagNode("h3", <<"Courses">>),
      TagNode("p", <<"Intro. Prerequisite: CPSC 100.">>),
      TagNode("div", <<"Corequisite: MATH 100. Credit will only be granted for one of A or B.">>),
      TagNode("h2", <<"Other">>),
      TagNode("li", <<" ">>),
      StrNode("\n") }

RECURSIVE IndexOf(_, _, _)
\* the first position at or after i where sub occurs in s, 0 when there is none
IndexOf(sub, s, i) ==
    IF i + Len(sub) - 1 > Len(s) THEN 0
    ELSE IF SubSeq(s, i, i + Len(sub) - 1) = sub THEN i
    ELSE IndexOf(sub, s, i + 1)

Contains(sub, s) == IndexOf(sub, s, 1) # 0

\* text.split(sub, 1)[1].strip(), for a text that contains sub
AfterFirst(sub, s) == Strip(SubSeq(s, IndexOf(sub, s, 1) + Len(sub), Len(s)))

\* re.search(r"\d", text)
HasDigit(s) == \E i \in 1..Len(s) : SubSeq(s, i, i) \in Digits

RECURSIVE NextTagFrom(_, _)
NextTagFrom(nodes, j) ==
    IF j > Len(nodes) THEN Len(nodes) + 1
    ELSE IF nodes[j].tag THEN j
    ELSE NextTagFrom(nodes, j + 1)

\* Tag.find_next_sibling(): the next sibling that is a tag; Len + 1 stands for None
find_next_sibling(nodes, i) == NextTagFrom(nodes, i + 1)

RECURSIVE CourseHeadingsFrom(_, _)
\* lines 108-111: the h3 whose text holds a digit, in document order
CourseHeadingsFrom(nodes, i) ==
    IF i > Len(nodes) THEN <<>>
    ELSE (IF nodes[i].tag /\ nodes[i].name = "h3" /\ HasDigit(get_text(nodes[i]))
          THEN <<i>> ELSE <<>>)
         \o CourseHeadingsFrom(nodes, i + 1)

InitCourse ==
    /\ pc = "c_start"
    /\ page \in {[nodes |-> q] : q \in SeqsUpTo(CourseNodes, MaxCourseNodes)}
    /\ node = 0
    /\ steps = 0
    /\ RawIdle
    /\ BlockIdle
    /\ NormIdle
    /\ CourseIdle
    /\ BatchIdle
    /\ MergeIdle

\* lines 107-111: the course headings of the page
CollectCourses ==
    /\ pc = "c_start"
    /\ h3s' = CourseHeadingsFrom(Nodes, 1)
    /\ cidx' = 1
    /\ courses' = <<>>
    /\ pc' = "c_for"
    /\ UNCHANGED <<page, node, steps, rawVars, blockVars, normVars, batchVars, mergeVars, course_meta,
                   description_parts, prereq_raw, coreq_raw, exclusion_raw>>

\* lines 62-71: the heading is parsed and the walk starts at its next tag sibling
BeginCourse ==
    /\ pc = "c_for"
    /\ cidx <= Len(h3s)
    /\ course_meta' = parse_course_heading(get_text(Nodes[h3s[cidx]]))
    /\ description_parts' = <<>>
    /\ prereq_raw' = None
    /\ coreq_raw' = None
    /\ exclusion_raw' = None
    /\ node' = find_next_sibling(Nodes, h3s[cidx])
    /\ steps' = 0
    /\ pc' = "c_walk"
    /\ UNCHANGED <<page, rawVars, blockVars, normVars, batchVars, mergeVars, h3s, cidx, courses>>

\* lines 72-86: one iteration of the while loop
CourseStep ==
    /\ pc = "c_walk"
    /\ node <= NumNodes
    /\ Nodes[node].name # "h3"
    /\ LET t == get_text(Nodes[node])
           kept == Nodes[node].name \in {"p", "div", "li"} /\ t # ""
       IN  /\ description_parts' = IF kept THEN Append(description_parts, t)
                                   ELSE description_parts
           /\ prereq_raw' = IF kept /\ Contains("Prerequisite:", t)
                            THEN AfterFirst("Prerequisite:", t) ELSE prereq_raw
           /\ coreq_raw' = IF kept /\ Contains("Corequisite:", t)
                           THEN AfterFirst("Corequisite:", t) ELSE coreq_raw
           /\ exclusion_raw' =
                  IF kept /\ (Contains("Credit will only be granted for one of", t)
                              \/ Contains("Credit will be granted for only one of", t))
                  THEN t ELSE exclusion_raw
    /\ node' = find_next_sibling(Nodes, node)
    /\ steps' = steps + 1
    /\ UNCHANGED <<pc, page, rawVars, blockVars, normVars, batchVars, mergeVars, h3s, cidx, course_meta, courses>>

\* mutant: every record is kept
Emits_Always(course) == TRUE

\* line 114: if course["course_number"]
Emits(course) == course.course_number # None /\ course.course_number # ""

\* lines 72, 88-101 and 113-115: the loop ends (no sibling left, or the next
\* h3); the record is built and kept when its course number is set
EndCourse ==
    /\ pc = "c_walk"
    /\ IF node > NumNodes THEN TRUE ELSE Nodes[node].name = "h3"
    /\ LET course == [subject |-> course_meta.subject,
                      campus_suffix |-> course_meta.campus_suffix,
                      course_number |-> course_meta.number,
                      credits |-> course_meta.credits,
                      title |-> course_meta.title,
                      description |-> Strip(JoinWith(" ", description_parts)),
                      prerequisite_raw |-> prereq_raw,
                      corequisite_raw |-> coreq_raw,
                      exclusion_raw |-> exclusion_raw]
       IN  courses' = IF Emits(course) THEN Append(courses, course) ELSE courses
    /\ cidx' = cidx + 1
    /\ pc' = "c_for"
    /\ UNCHANGED <<page, node, steps, rawVars, blockVars, normVars, batchVars, mergeVars, h3s, course_meta,
                   description_parts, prereq_raw, coreq_raw, exclusion_raw>>

\* lines 117-118: every heading has been handled
ReturnCourses ==
    /\ pc = "c_for"
    /\ cidx > Len(h3s)
    /\ pc' = "c_done"
    /\ UNCHANGED <<page, node, steps, rawVars, blockVars, normVars, batchVars, mergeVars, courseVars>>

NextCourse ==
    \/ CollectCourses
    \/ BeginCourse
    \/ CourseStep
    \/ EndCourse
    \/ ReturnCourses

SpecCourse == InitCourse /\ [][NextCourse]_vars


(***************************************************************************)
(* Properties of the course scraper (SpecCourse).                          *)
(***************************************************************************)
\* the text of the k-th course heading and what parse_course_heading makes of it
HeadingText(k) == get_text(Nodes[h3s[k]])
Parsed(k) == parse_course_heading(HeadingText(k))

\* the fields of a heading the pattern does not match, with the given title
AllNull(meta, t) ==
    /\ meta.subject = None
    /\ meta.campus_suffix = None
    /\ meta.number = None
    /\ meta.credits = None
    /\ meta.title = t

\* a record is emitted iff its heading has a course number, and none without
RecordIffNumber ==
    /\ \A k \in 1..Len(courses) : courses[k].course_number \notin {None, ""}
    /\ pc # "c_start" =>
          Len(courses) =
              Cardinality({k \in 1..Len(h3s) : k < cidx /\ Parsed(k).number # None})

\* C16 as stated: a heading the pattern misses gives null subject, campus
\* suffix, number and credits and the raw heading text as title; a record is
\* emitted iff its course number is present.
C16_MissGivesNullsRawTitle ==
    /\ pc = "c_walk" =>
          (course_meta.number = None => AllNull(course_meta, HeadingText(cidx)))
    /\ RecordIffNumber

\* C16 amended: a heading the pattern misses gives null subject, campus
\* suffix, number and credits, and as title the heading text with its
\* white-space runs collapsed to one space; a record is emitted iff its course
\* number is present, so every emitted record has a course number and a
\* heading without one gives no record.
C16_MissGivesNullsCollapsedTitle ==
    /\ pc = "c_walk" =>
          (course_meta.number = None =>
              AllNull(course_meta, Strip(CollapseWS(HeadingText(cidx)))))
    /\ RecordIffNumber

\* a page with a heading the pattern misses (a digit, but no course number)
\* and one it matches has been scraped: one record
C16_Witness ==
    /\ pc = "c_done"
    /\ Len(h3s) = 2
    /\ Parsed(1).number = None
    /\ Parsed(1).title = "Lab 2"
    /\ Parsed(2).number = "110"
    /\ Len(courses) = 1
    /\ courses[1].course_number = "110"


(***************************************************************************)
(* The four walks together: the section walk and the whole-page fallback   *)
(* walk of the requirements scraper, the block walk, the course-block walk.*)
(***************************************************************************)
InitWalks == InitRaw \/ InitBlock \/ InitCourse

NextWalks == NextRaw \/ NextBlock \/ NextCourse

SpecWalks == InitWalks /\ [][NextWalks]_vars

\* the program has returned
Terminated == pc \in {"done", "b_done", "c_done"}

\* an iteration of one of the four while loops
LoopIteration == pc \in {"walk", "fb_walk", "b_walk", "c_walk"} /\ pc' = pc

\* siblings the current walk has not reached yet
Ahead == NumNodes + 1 - node

\* a bound on the steps a program can still take
Rank ==
    CASE pc \in {"start", "c_start"} -> (NumNodes + 1) * (NumNodes + 3) + NumNodes + 5
      [] pc = "for" -> (Len(spec_headers) + 1 - idx) * (NumNodes + 3) + NumNodes + 4
      [] pc = "walk" -> (Len(spec_headers) - idx) * (NumNodes + 3) + NumNodes + 5 + Ahead
      [] pc = "fb_walk" -> 1 + Ahead
      [] pc = "b_find" -> NumNodes + 3
      [] pc = "b_walk" -> 1 + Ahead
      [] pc = "c_for" -> (Len(h3s) + 1 - cidx) * (NumNodes + 3) + 1
      [] pc = "c_walk" -> (Len(h3s) - cidx) * (NumNodes + 3) + 2 + Ahead
      [] OTHER -> 0

\* C12: finding no matching heading or no section on a fetched page is never
\* an error: process_specialization returns the record with requirements_raw
\* empty, and the raw extraction of a page without section headings returns one
\* record without raising, with years_raw empty when the page has no content
\* (a page without h1 and with an empty body included).
C12_NothingFoundIsNoError ==
    /\ (pc = "b_done" /\ heading = 0) => requirements_raw = <<>>
    /\ (pc = "done" /\ SectionHeadings = {}) =>
          /\ err = None
          /\ Len(results) = 1
          /\ Nodes = <<>> => results[1].years_raw = <<>>

\* the raw extraction of a page without h1 and title, with an empty body, has
\* raised: the page gives an error string and no record
C12_Witness ==
    /\ pc = "done"
    /\ Nodes = <<>>
    /\ has_body
    /\ soup_title = None
    /\ err # None
    /\ results = <<>>

\* C9: every segmentation walk terminates on every finite page: each
\* iteration moves strictly forward among the siblings, so the iterations of
\* one walk never outnumber the sibling nodes, and every step of a program
\* lowers a natural-number bound on the steps left, which is positive until
\* the program has returned, whether or not a terminator or a next section
\* heading is ever met.
C9_WalksTerminate ==
    /\ [](steps <= NumNodes /\ node <= NumNodes + 1)
    /\ [](Rank \in Nat /\ (Terminated <=> Rank = 0))
    /\ [][LoopIteration => node' > node /\ steps' = steps + 1]_vars
    /\ [][Rank' < Rank]_vars

\* a walk has run over every sibling of a page without meeting a heading and ended
C9_Witness ==
    /\ Terminated
    /\ steps = NumNodes - 1
    /\ steps >= 3
    /\ \A j \in 2..NumNodes : ~IsHeadingTag(Nodes[j])


(***************************************************************************)
(* programScraper.py: fetch, scrape_program, build_entries, main.          *)
(***************************************************************************)
\* the pages a batch takes
MaxPages == 3

\* what the loops need of a program page: whether the GET succeeds, whether the
\* page has an h1 and a #program-vitals box, and whether the box says Honours: Yes
ProgramPage(fetch_ok, has_h1, has_vitals, honours) ==
    [fetch_ok |-> fetch_ok, has_h1 |-> has_h1, has_vitals |-> has_vitals,
     honours |-> honours]

ProgramPages ==
    { ProgramPage(FALSE, FALSE, FALSE, FALSE),
      ProgramPage(TRUE, FALSE, TRUE, FALSE),
      ProgramPage(TRUE, TRUE, FALSE, FALSE),
      ProgramPage(TRUE, TRUE, TRUE, FALSE),
      ProgramPage(TRUE, TRUE, TRUE, TRUE) }

\* the outcome of a call: the exception it raises (or None) or the value it returns
Raises(e) == [exc |-> e, entries |-> <<>>, err |-> None]
Returns(entries, e) == [exc |-> None, entries |-> entries, err |-> e]

\* lines 118-155: the Major entry and, for an honours program, the Honours entry
build_entries(url, p) ==
    <<[url |-> url, name |-> "Major"]>>
    \o (IF p.honours THEN <<[url |-> url, name |-> "Honours"]>> ELSE <<>>)

\* lines 21-28 and 162-178: fetch raises RuntimeError on a failed GET and
\* scrape_program does not catch it; a missing h1 or info box is returned as err
scrape_program(url, p) ==
    IF ~p.fetch_ok THEN Raises("RuntimeError")
    ELSE IF ~p.has_h1 THEN Returns(<<>>, "No <h1> title found")
    ELSE IF ~p.has_vitals THEN Returns(<<>>, "Program info box not found")
    ELSE Returns(build_entries(url, p), None)

InitProgramBatch ==
    /\ pc = "p_main"
    /\ urls \in SeqsUpTo(ProgramPages, MaxPages)
    /\ bi = 1
    /\ all_entries = <<>>
    /\ written = FALSE
    /\ raised = None
    /\ page = [nodes |-> <<>>]
    /\ node = 0
    /\ steps = 0
    /\ RawIdle
    /\ BlockIdle
    /\ NormIdle
    /\ CourseIdle
    /\ MergeIdle

\* lines 197-207: one page of the loop; the call of line 200 is not inside a try
ProgramScrapePage ==
    /\ pc = "p_main"
    /\ bi <= Len(urls)
    /\ LET r == scrape_program(bi, urls[bi]) IN
       IF r.exc # None
       THEN /\ raised' = r.exc
            /\ pc' = "m_raised"
            /\ UNCHANGED <<bi, all_entries>>
       ELSE /\ all_entries' = IF r.err # None THEN all_entries
                               ELSE all_entries \o r.entries
            /\ bi' = bi + 1
            /\ UNCHANGED <<pc, raised>>
    /\ UNCHANGED <<urls, written, page, node, steps, rawVars, blockVars, normVars, courseVars, mergeVars>>

\* lines 209-212: the loop is over and the entries are written
ProgramWrite ==
    /\ pc = "p_main"
    /\ bi > Len(urls)
    /\ written' = TRUE
    /\ pc' = "m_done"
    /\ UNCHANGED <<urls, bi, all_entries, raised, page, node, steps, rawVars, blockVars,
                   normVars, courseVars, mergeVars>>

(***************************************************************************)
(* ubc_prereq_scraper.py: main.                                            *)
(***************************************************************************)
\* what the loop needs of a subject page: whether the GET succeeds, whether
\* parsing it raises, and the course records parse_subject_page returns
SubjectPage(fetch_ok, parse_ok, n_courses) ==
    [fetch_ok |-> fetch_ok, parse_ok |-> parse_ok, n_courses |-> n_courses]

SubjectPages ==
    { SubjectPage(FALSE, TRUE, 0),
      SubjectPage(TRUE, FALSE, 0),
      SubjectPage(TRUE, TRUE, 0),
      SubjectPage(TRUE, TRUE, 2) }

\* lines 103-118 with fetch, lines 16-20: raise_for_status raises on a failed GET
parse_subject_page(url, p) ==
    IF ~p.fetch_ok THEN Raises("HTTPError")
    ELSE IF ~p.parse_ok THEN Raises("Exception")
    ELSE Returns([k \in 1..p.n_courses |-> [url |-> url, name |-> "course"]], None)

InitSubjectBatch ==
    /\ pc = "u_main"
    /\ urls \in SeqsUpTo(SubjectPages, MaxPages)
    /\ bi = 1
    /\ all_entries = <<>>
    /\ written = FALSE
    /\ raised = None
    /\ page = [nodes |-> <<>>]
    /\ node = 0
    /\ steps = 0
    /\ RawIdle
    /\ BlockIdle
    /\ NormIdle
    /\ CourseIdle
    /\ MergeIdle

\* lines 124-131: one subject of the loop, inside try/except Exception
SubjectParsePage ==
    /\ pc = "u_main"
    /\ bi <= Len(urls)
    /\ LET r == parse_subject_page(bi, urls[bi]) IN
       all_entries' = IF r.exc # None THEN all_entries ELSE all_entries \o r.entries
    /\ bi' = bi + 1
    /\ UNCHANGED <<pc, urls, written, raised, page, node, steps, rawVars, blockVars,
                   normVars, courseVars, mergeVars>>

\* lines 133-151: the loop is over and the courses are written
SubjectWrite ==
    /\ pc = "u_main"
    /\ bi > Len(urls)
    /\ written' = TRUE
    /\ pc' = "m_done"
    /\ UNCHANGED <<urls, bi, all_entries, raised, page, node, steps, rawVars, blockVars,
                   normVars, courseVars, mergeVars>>

(***************************************************************************)
(* ai_parse_requirements.py: call_openai_parse_requirements, the oracle    *)
(* step of process_specialization, main.                                   *)
(***************************************************************************)
USE_AI == TRUE

\* JSON values as far as the code tells them apart
JsonArray(items) == [type |-> "array", items |-> items]
JsonString(str) == [type |-> "string", str |-> str]
JsonNumber == [type |-> "number"]
\* None, written as null
JsonNull == [type |-> "null"]
JsonObject(members) == [type |-> "object", members |-> members]

\* what can come of one call of the oracle: no API key, a failed POST, a reply
\* without choices[0].message.content, or a content string
Replies ==
    { [kind |-> "no_api_key"],
      [kind |-> "http_error"],
      [kind |-> "bad_envelope"],
      [kind |-> "content", valid_json |-> FALSE, json |-> JsonNumber],
      [kind |-> "content", valid_json |-> TRUE, json |-> JsonArray(<<>>)],
      [kind |-> "content", valid_json |-> TRUE,
       json |-> JsonObject([notes |-> JsonString("n/a")])],
      [kind |-> "content", valid_json |-> TRUE,
       json |-> JsonObject([requirements |-> JsonNumber])],
      [kind |-> "content", valid_json |-> TRUE,
       json |-> JsonObject([requirements |-> JsonString("see calendar")])],
      [kind |-> "content", valid_json |-> TRUE,
       json |-> JsonObject([requirements |-> JsonArray(<<"course_list">>)])] }

\* the outcome of the call: an exception or the parsed JSON value
CallRaises(e) == [exc |-> e, value |-> JsonNumber]
CallReturns(v) == [exc |-> None, value |-> v]

\* lines 190-225
call_openai_parse_requirements(reply) ==
    IF reply.kind = "no_api_key" THEN CallRaises("RuntimeError")
    ELSE IF reply.kind = "http_error" THEN CallRaises("HTTPError")
    ELSE IF reply.kind = "bad_envelope" THEN CallRaises("KeyError")
    ELSE IF ~reply.valid_json THEN CallRaises("JSONDecodeError")
    ELSE CallReturns(reply.json)

\* len() is defined for these
Sized(v) == v.type \in {"array", "string", "object"}

\* lines 262-271: requirements_parsed; every exception of the try is caught
\* (parsed.get on a value that is no object, len() of an unsized value)
requirements_parsed(raw_lines, reply) ==
    IF ~(USE_AI /\ raw_lines # <<>>) THEN JsonNull
    ELSE LET r == call_openai_parse_requirements(reply) IN
         IF r.exc # None THEN JsonNull
         ELSE IF r.value.type # "object" THEN JsonNull
         ELSE LET got == IF "requirements" \in DOMAIN r.value.members
                         THEN r.value.members.requirements
                         ELSE JsonArray(<<>>)
              IN  IF Sized(got) THEN got ELSE JsonNull

\* what main needs of one specialization: whether its page can be fetched,
\* whether a heading matches, the lines the block walk gives and the oracle's
\* reply
SpecItem(fetch_ok, has_heading, raw_lines, reply) ==
    [fetch_ok |-> fetch_ok, has_heading |-> has_heading, raw_lines |-> raw_lines,
     reply |-> reply]

SpecItems ==
    { SpecItem(FALSE, FALSE, <<>>, [kind |-> "http_error"]),
      SpecItem(TRUE, FALSE, <<>>, [kind |-> "http_error"]),
      SpecItem(TRUE, TRUE, <<>>, [kind |-> "http_error"]) }
    \cup { SpecItem(TRUE, TRUE, <<"Take MATH 100", "CS 101">>, r) : r \in Replies }

\* lines 230-273
process_specialization(url, item) ==
    IF ~item.fetch_ok \/ ~item.has_heading
    THEN [url |-> url, requirements_raw |-> <<>>, requirements_parsed |-> JsonNull]
    ELSE [url |-> url, requirements_raw |-> item.raw_lines,
          requirements_parsed |-> requirements_parsed(item.raw_lines, item.reply)]

InitAIBatch ==
    /\ pc = "a_main"
    /\ urls \in SeqsUpTo(SpecItems, MaxPages)
    /\ bi = 1
    /\ all_entries = <<>>
    /\ written = FALSE
    /\ raised = None
    /\ page = [nodes |-> <<>>]
    /\ node = 0
    /\ steps = 0
    /\ RawIdle
    /\ BlockIdle
    /\ NormIdle
    /\ CourseIdle
    /\ MergeIdle

\* lines 282-286: one specialization of the loop
AIProcessSpec ==
    /\ pc = "a_main"
    /\ bi <= Len(urls)
    /\ all_entries' = Append(all_entries, process_specialization(bi, urls[bi]))
    /\ bi' = bi + 1
    /\ UNCHANGED <<pc, urls, written, raised, page, node, steps, rawVars, blockVars,
                   normVars, courseVars, mergeVars>>

\* lines 288-292: the loop is over and the records are written
AIWrite ==
    /\ pc = "a_main"
    /\ bi > Len(urls)
    /\ written' = TRUE
    /\ pc' = "m_done"
    /\ UNCHANGED <<urls, bi, all_entries, raised, page, node, steps, rawVars, blockVars,
                   normVars, courseVars, mergeVars>>

NextAI ==
    \/ AIProcessSpec
    \/ AIWrite

SpecAI == InitAIBatch /\ [][NextAI]_vars

InitBatch == InitProgramBatch \/ InitSubjectBatch \/ InitAIBatch

NextBatch ==
    \/ ProgramScrapePage
    \/ ProgramWrite
    \/ SubjectParsePage
    \/ SubjectWrite
    \/ AIProcessSpec
    \/ AIWrite

SpecBatch == InitBatch /\ [][NextBatch]_vars

\* the pages that give records: fetched and parsed without a failure
GivesRecords(p) ==
    IF "has_h1" \in DOMAIN p THEN p.fetch_ok /\ p.has_h1 /\ p.has_vitals
    ELSE IF "n_courses" \in DOMAIN p THEN p.fetch_ok /\ p.parse_ok /\ p.n_courses > 0
    ELSE TRUE

\* C13: in every batch loop a failure while processing one page (failed fetch,
\* missing title or info box, parsing exception) never prevents the remaining
\* pages from being processed: no exception leaves main, the records kept are
\* those of all the pages taken so far that did not fail, and a loop that has
\* ended has taken every page and written its output.
C13_FailureIsolatedPerPage ==
    /\ raised = None
    /\ {all_entries[k].url : k \in 1..Len(all_entries)} =
           {i \in 1..(bi - 1) : GivesRecords(urls[i])}
    /\ pc \notin {"p_main", "u_main", "a_main"} => written /\ bi = Len(urls) + 1

\* the program batch met a page whose fetch failed before its last page and
\* ended with the exception, without taking the later pages or writing
C13_Witness ==
    /\ pc = "m_raised"
    /\ raised = "RuntimeError"
    /\ bi < Len(urls)
    /\ ~urls[bi].fetch_ok
    /\ ~written

(***************************************************************************)
(* Properties of the oracle step (SpecAI).                                 *)
(***************************************************************************)
\* the specializations whose lines were sent to the oracle
Asked(item) == item.fetch_ok /\ item.has_heading /\ item.raw_lines # <<>>

\* the contract's reply: a JSON object whose "requirements" is an array
Conformant(reply) ==
    /\ reply.kind = "content"
    /\ reply.valid_json
    /\ reply.json.type = "object"
    /\ "requirements" \in DOMAIN reply.json.members
    /\ reply.json.members.requirements.type = "array"

\* no reply, no content, or content that is not JSON
NoJson(reply) == reply.kind # "content" \/ ~reply.valid_json

\* the loop goes on after every record: one record per specialization taken,
\* no exception, and the file written when the loop has ended
BatchProceeds ==
    /\ raised = None
    /\ Len(all_entries) = bi - 1
    /\ pc # "a_main" => written /\ bi = Len(urls) + 1

\* C14 as stated: an oracle call that fails or whose reply is not JSON or not
\* the contract's object leaves the record with its raw lines and with
\* requirements_parsed None, and the batch goes on.
C14_AnyBadReplyUnstructured ==
    /\ BatchProceeds
    /\ \A k \in 1..Len(all_entries) :
          (Asked(urls[k]) /\ ~Conformant(urls[k].reply)) =>
              /\ all_entries[k].requirements_raw = urls[k].raw_lines
              /\ all_entries[k].requirements_parsed = JsonNull

\* what the code does with each reply: an oracle call that fails, a reply
\* without content, content that is not JSON, JSON that is not an object, and
\* an object whose "requirements" has no length leave requirements_parsed
\* None; an object without "requirements" gives the empty list and a
\* "requirements" string is stored as returned; the raw lines are retained and
\* the batch goes on in every case.
C14_CaughtFailuresUnstructured ==
    /\ BatchProceeds
    /\ \A k \in 1..Len(all_entries) :
          Asked(urls[k]) =>
              LET reply == urls[k].reply
                  rec == all_entries[k]
              IN  /\ rec.requirements_raw = urls[k].raw_lines
                  /\ rec.requirements_parsed =
                        IF NoJson(reply) \/ reply.json.type # "object" THEN JsonNull
                        ELSE IF "requirements" \notin DOMAIN reply.json.members
                        THEN JsonArray(<<>>)
                        ELSE IF reply.json.members.requirements.type = "number"
                        THEN JsonNull
                        ELSE reply.json.members.requirements

\* a record whose reply was a JSON object without "requirements" has been
\* returned as structured, with an empty list, and one whose "requirements"
\* was a string has that string as its parsed requirements
C14_Witness ==
    /\ Len(all_entries) >= 2
    /\ Asked(urls[1]) /\ ~NoJson(urls[1].reply)
    /\ urls[1].reply.json = JsonObject([notes |-> JsonString("n/a")])
    /\ all_entries[1].requirements_parsed = JsonArray(<<>>)
    /\ Asked(urls[2]) /\ ~NoJson(urls[2].reply)
    /\ urls[2].reply.json = JsonObject([requirements |-> JsonString("see calendar")])
    /\ all_entries[2].requirements_parsed = JsonString("see calendar")


(***************************************************************************)
(* scrape_requirements_raw.py: main, the worker pool and the merge loop.   *)
(***************************************************************************)
MAX_WORKERS == 8

\* the program pages one run scrapes
MaxPrograms == 3

\* lines 93-110: the faculty slug of a program URL; URLs are page numbers here
get_faculty_from_url(url) == IF url = 1 THEN "faculty-arts" ELSE "faculty-science"

\* a specialization record; faculty is None when the key is missing
SpecRecord(url, name, faculty) ==
    [program_url |-> url, specialization_name |-> name, faculty |-> faculty]

\* what a page's future gives: scrape_program's (specs, err), the specs named
\* in document order, or an exception raised by future.result()
ProgramResult(names, e, unhandled) == [names |-> names, err |-> e, unhandled |-> unhandled]

ProgramResults ==
    { ProgramResult(<<>>, "list index out of range", FALSE),
      ProgramResult(<<>>, None, TRUE),
      ProgramResult(<<"Major in X">>, None, FALSE),
      ProgramResult(<<"Minor in Y", "Major in X", "Minor in Y">>, None, FALSE) }

\* the output file of an earlier run: none, or records of which one has no faculty
LoadedFiles ==
    { <<>>,
      <<SpecRecord(2, "Major in X", "faculty-science"), SpecRecord(1, "Major in X", None)>> }

\* lines 437-438: faculty is added to a loaded record that has none
Backfill(rec) ==
    IF rec.faculty = None
    THEN [rec EXCEPT !.faculty = get_faculty_from_url(rec.program_url)]
    ELSE rec

Key(rec) == <<rec.program_url, rec.specialization_name>>

\* mutant: a key is not remembered
AddPair_Forgets(pairs, key) == pairs

\* line 485
AddPair(pairs, key) == pairs \cup {key}

\* mutant: a future is taken before its worker has returned
Completed_Any(p) == TRUE

\* line 465: as_completed yields a future when its worker has returned
Completed(p) == futures[p] = "done"

InitMerge ==
    /\ pc = "g_load"
    /\ urls \in SeqsUpTo(ProgramResults, MaxPrograms)
    /\ loaded \in LoadedFiles
    /\ existing_specs = <<>>
    /\ existing_pairs = {}
    /\ all_specs = <<>>
    /\ completed_programs = 0
    /\ futures = <<>>
    /\ handled = {}
    /\ cur = 0
    /\ si = 1
    /\ appends = <<>>
    /\ bi = 1
    /\ all_entries = <<>>
    /\ written = FALSE
    /\ raised = None
    /\ page = [nodes |-> <<>>]
    /\ node = 0
    /\ steps = 0
    /\ RawIdle
    /\ BlockIdle
    /\ NormIdle
    /\ CourseIdle

\* lines 427-463: the file is loaded, faculty backfilled, the keys collected,
\* and one future per program URL submitted to the pool
LoadAndSubmit ==
    /\ pc = "g_load"
    /\ existing_specs' = [k \in 1..Len(loaded) |-> Backfill(loaded[k])]
    /\ existing_pairs' = {Key(loaded[k]) : k \in 1..Len(loaded)}
    /\ all_specs' = [k \in 1..Len(loaded) |-> Backfill(loaded[k])]
    /\ completed_programs' = 0
    /\ futures' = [p \in 1..Len(urls) |-> "queued"]
    /\ pc' = "g_wait"
    /\ UNCHANGED <<urls, loaded, handled, cur, si, appends, bi, all_entries, written,
                   raised, page, node, steps, rawVars, blockVars, normVars, courseVars>>

\* a pool thread takes a queued page; at most MAX_WORKERS run at a time
WorkerStart(p) ==
    /\ pc \in {"g_wait", "g_merge"}
    /\ futures[p] = "queued"
    /\ Cardinality({q \in 1..Len(urls) : futures[q] = "running"}) < MAX_WORKERS
    /\ futures' = [futures EXCEPT ![p] = "running"]
    /\ UNCHANGED <<pc, urls, loaded, existing_specs, existing_pairs, all_specs,
                   completed_programs, handled, cur, si, appends, bi, all_entries,
                   written, raised, page, node, steps, rawVars, blockVars, normVars,
                   courseVars>>

\* lines 392-402: scrape_program returns in its pool thread; it touches
\* neither all_specs nor existing_pairs
WorkerFinish(p) ==
    /\ pc \in {"g_wait", "g_merge"}
    /\ futures[p] = "running"
    /\ futures' = [futures EXCEPT ![p] = "done"]
    /\ UNCHANGED <<pc, urls, loaded, existing_specs, existing_pairs, all_specs,
                   completed_programs, handled, cur, si, appends, bi, all_entries,
                   written, raised, page, node, steps, rawVars, blockVars, normVars,
                   courseVars>>

\* lines 465-478 and 491-492: the main thread takes the next completed future;
\* an exception or an error string ends the page at once
TakeCompleted(p) ==
    /\ pc = "g_wait"
    /\ p \notin handled
    /\ Completed(p)
    /\ handled' = handled \cup {p}
    /\ IF urls[p].unhandled \/ urls[p].err # None
       THEN /\ completed_programs' = completed_programs + 1
            /\ UNCHANGED <<pc, cur, si>>
       ELSE /\ cur' = p
            /\ si' = 1
            /\ pc' = "g_merge"
            /\ UNCHANGED completed_programs
    /\ UNCHANGED <<urls, loaded, existing_specs, existing_pairs, all_specs, futures,
                   appends, bi, all_entries, written, raised, page, node, steps,
                   rawVars, blockVars, normVars, courseVars>>

\* lines 479-486: one record of the page, skipped when its key is known
MergeSpec ==
    /\ pc = "g_merge"
    /\ si <= Len(urls[cur].names)
    /\ LET rec == SpecRecord(cur, urls[cur].names[si], get_faculty_from_url(cur)) IN
       IF Key(rec) \in existing_pairs
       THEN UNCHANGED <<all_specs, existing_pairs, appends>>
       ELSE /\ all_specs' = Append(all_specs, rec)
            /\ existing_pairs' = AddPair(existing_pairs, Key(rec))
            /\ appends' = Append(appends, [thread |-> "main", url |-> cur, pos |-> si,
                                            future |-> futures[cur]])
    /\ si' = si + 1
    /\ UNCHANGED <<pc, urls, loaded, existing_specs, completed_programs, futures,
                   handled, cur, bi, all_entries, written, raised, page, node, steps,
                   rawVars, blockVars, normVars, courseVars>>

\* lines 488-492: the page is merged
EndMerge ==
    /\ pc = "g_merge"
    /\ si > Len(urls[cur].names)
    /\ completed_programs' = completed_programs + 1
    /\ cur' = 0
    /\ pc' = "g_wait"
    /\ UNCHANGED <<urls, loaded, existing_specs, existing_pairs, all_specs, futures,
                   handled, si, appends, bi, all_entries, written, raised, page, node,
                   steps, rawVars, blockVars, normVars, courseVars>>

\* lines 494-501: every future was yielded; the merged collection is saved
SaveMerged ==
    /\ pc = "g_wait"
    /\ handled = 1..Len(urls)
    /\ written' = TRUE
    /\ pc' = "g_done"
    /\ UNCHANGED <<urls, loaded, existing_specs, existing_pairs, all_specs,
                   completed_programs, futures, handled, cur, si, appends, bi,
                   all_entries, raised, page, node, steps, rawVars, blockVars, normVars,
                   courseVars>>

NextMerge ==
    \/ LoadAndSubmit
    \/ \E p \in 1..Len(urls) : WorkerStart(p)
    \/ \E p \in 1..Len(urls) : WorkerFinish(p)
    \/ \E p \in 1..Len(urls) : TakeCompleted(p)
    \/ MergeSpec
    \/ EndMerge
    \/ SaveMerged

SpecMerge == InitMerge /\ [][NextMerge]_vars

(***************************************************************************)
(* Properties of the worker pool and the merge loop (SpecMerge).           *)
(***************************************************************************)
\* a step of a pool thread
WorkerStep == futures' # futures /\ pc # "g_load"

\* the records appended so far, after the loaded ones
Appended == SubSeq(all_specs, Len(loaded) + 1, Len(all_specs))

DistinctKeys(recs) ==
    \A j, k \in 1..Len(recs) : j # k => Key(recs[j]) # Key(recs[k])

\* the pages the merge loop has finished
Finished == IF pc = "g_merge" THEN handled \ {cur} ELSE handled

\* the keys and the counter of the merge loop
KeysAndCounter ==
    /\ DistinctKeys(Appended)
    /\ \A k \in 1..Len(Appended), j \in 1..Len(loaded) : Key(Appended[k]) # Key(loaded[j])
    /\ completed_programs = Cardinality(Finished)
    /\ pc = "g_done" => completed_programs = Len(urls)

\* C19 as stated: the merged collection starts with the loaded records
\* unchanged and in their order, no appended record repeats a key, and the
\* counter counts each page once and ends at the number of pages.
C19_LoadedUnchanged ==
    pc # "g_load" =>
        /\ Len(all_specs) >= Len(loaded)
        /\ SubSeq(all_specs, 1, Len(loaded)) = loaded
        /\ KeysAndCounter

\* C19 amended: the merged collection starts with the loaded records in their
\* order, each unchanged except that a record without faculty has got the
\* faculty of its program URL; no appended record has the key of a loaded or
\* of an earlier appended record; the counter counts each finished page once
\* and equals the number of pages when the loop has ended.
C19_LoadedKeptWithFaculty ==
    pc # "g_load" =>
        /\ Len(all_specs) >= Len(loaded)
        /\ \A k \in 1..Len(loaded) :
              /\ Key(all_specs[k]) = Key(loaded[k])
              /\ all_specs[k].faculty =
                    IF loaded[k].faculty # None THEN loaded[k].faculty
                    ELSE get_faculty_from_url(loaded[k].program_url)
        /\ KeysAndCounter

\* a run over three pages has ended after a file was loaded: a loaded record
\* got its faculty, a scraped record with a loaded key was skipped and a
\* repeated one was appended once
C19_Witness ==
    /\ pc = "g_done"
    /\ Len(urls) = 3
    /\ completed_programs = 3
    /\ loaded # <<>>
    /\ all_specs[2].faculty = "faculty-arts"
    /\ urls[1].names = <<"Minor in Y", "Major in X", "Minor in Y">>
    /\ Cardinality({k \in 1..Len(Appended) : Appended[k].program_url = 1}) = 1
    /\ urls[2].err # None
    /\ urls[3].unhandled

=============================================================================
